---- MODULE Spec2Model ----
(***************************************************************************)
(* A model of main.py of the European Parliament minute scraper: the text  *)
(* normaliser clean_text, the extractor extract_dutch_text_from_xml, the   *)
(* loop process_and_extract_data and the incremental publication of main.  *)
(*                                                                         *)
(* A text is a sequence of characters, a character a one-character string  *)
(* ("ldq" and "rdq" stand for the curly quotes U+201C and U+201D).         *)
(***************************************************************************)
EXTENDS Integers, Sequences, FiniteSets

(***************************************************************************)
(* Characters and the character classes of Python's re module.             *)
(***************************************************************************)
LowerSeq == <<"a","b","c","d","e","f","g","h","i","j","k","l","m","n","o","p","q","r","s","t","u","v","w","x","y","z">>
UpperSeq == <<"A","B","C","D","E","F","G","H","I","J","K","L","M","N","O","P","Q","R","S","T","U","V","W","X","Y","Z">>
LowerSet == {LowerSeq[i] : i \in DOMAIN LowerSeq}
UpperSet == {UpperSeq[i] : i \in DOMAIN UpperSeq}
\* [a-zA-Z]
Letter == LowerSet \cup UpperSet
\* \d
Digit == {"0","1","2","3","4","5","6","7","8","9"}
\* \s
Space == {" ", "\t", "\n", "\r"}
\* \w
Word == Letter \cup Digit \cup {"_"}

LowerOf == [c \in UpperSet |-> LowerSeq[CHOOSE i \in DOMAIN UpperSeq : UpperSeq[i] = c]]
UpperOf == [c \in LowerSet |-> UpperSeq[CHOOSE i \in DOMAIN LowerSeq : LowerSeq[i] = c]]
ToLower(c) == IF c \in UpperSet THEN LowerOf[c] ELSE c
ToUpper(c) == IF c \in LowerSet THEN UpperOf[c] ELSE c
\* str.lower and str.upper
lower(t) == [i \in DOMAIN t |-> ToLower(t[i])]
upper(t) == [i \in DOMAIN t |-> ToUpper(t[i])]

(***************************************************************************)
(* Regular expressions as trees, matched the way the backtracking matcher  *)
(* of re does: Ends(r, ic, t, i) is the sequence of the positions at which *)
(* a match of r that starts at position i of t can end, in the order in    *)
(* which the matcher tries them (ic: re.IGNORECASE).  The first one is the *)
(* match re reports.                                                       *)
(***************************************************************************)
Inf == 0 - 1
Lit(s) == [k |-> "lit", s |-> s]
AnyChar == [k |-> "any"]
Cls(cs) == [k |-> "cls", cs |-> cs, neg |-> FALSE]
NotCls(cs) == [k |-> "cls", cs |-> cs, neg |-> TRUE]
Cat(rs) == [k |-> "cat", rs |-> rs]
Alt(rs) == [k |-> "alt", rs |-> rs]
Rep(r, lo, hi) == [k |-> "rep", r |-> r, lo |-> lo, hi |-> hi, lazy |-> FALSE]
LazyRep(r, lo, hi) == [k |-> "rep", r |-> r, lo |-> lo, hi |-> hi, lazy |-> TRUE]
Star(r) == Rep(r, 0, Inf)
Plus(r) == Rep(r, 1, Inf)
Opt(r) == Rep(r, 0, 1)
Empty == Cat(<<>>)

EqChar(ic, a, b) == a = b \/ (ic /\ ToLower(a) = ToLower(b))
InClass(ic, c, cs) == c \in cs \/ (ic /\ (ToLower(c) \in cs \/ ToUpper(c) \in cs))

LitAt(s, ic, t, i) ==
    /\ i + Len(s) - 1 <= Len(t)
    /\ \A j \in 1..Len(s) : EqChar(ic, t[i + j - 1], s[j])

\* a pattern that matches exactly one character
IsSingle(r) == r.k \in {"any", "cls"}
MatchesChar(r, ic, c) ==
    IF r.k = "any" THEN c # "\n" ELSE InClass(ic, c, r.cs) # r.neg

\* the number of characters from position i on that the single-character pattern
\* r matches in a row
RunLen(r, ic, t, i) ==
    LET stop == CHOOSE j \in i..(Len(t) + 1) :
                    /\ j = Len(t) + 1 \/ ~MatchesChar(r, ic, t[j])
                    /\ \A m \in i..(j - 1) : MatchesChar(r, ic, t[m])
    IN  stop - i

Min(S) == CHOOSE x \in S : \A y \in S : x <= y

RECURSIVE Ends(_, _, _, _)
RECURSIVE CatEnds(_, _, _, _, _)
RECURSIVE CatOver(_, _, _, _, _, _, _)
RECURSIVE AltEnds(_, _, _, _, _)
RECURSIVE RepEnds(_, _, _, _, _)
RECURSIVE RepOver(_, _, _, _, _, _, _)

\* r{lo,hi} for a single-character r: the run of matching characters decides;
\* a greedy repeat tries the longest first, a lazy one the shortest
RunEnds(r, ic, t, i) ==
    LET run == RunLen(r.r, ic, t, i)
        most == IF r.hi = Inf \/ run <= r.hi THEN run ELSE r.hi
    IN  IF most < r.lo THEN <<>>
        ELSE IF r.lazy THEN [j \in 1..(most - r.lo + 1) |-> i + r.lo + (j - 1)]
        ELSE [j \in 1..(most - r.lo + 1) |-> i + most - (j - 1)]

Ends(r, ic, t, i) ==
    CASE r.k = "lit" -> IF LitAt(r.s, ic, t, i) THEN <<i + Len(r.s)>> ELSE <<>>
      [] r.k \in {"any", "cls"} ->
            IF i <= Len(t) /\ MatchesChar(r, ic, t[i]) THEN <<i + 1>> ELSE <<>>
      [] r.k = "cat" -> CatEnds(r.rs, 1, ic, t, i)
      [] r.k = "alt" -> AltEnds(r.rs, 1, ic, t, i)
      [] r.k = "rep" -> IF IsSingle(r.r) THEN RunEnds(r, ic, t, i)
                        ELSE RepEnds(r, 0, ic, t, i)

\* rs[n], rs[n+1], ... in a row, from position i
CatEnds(rs, n, ic, t, i) ==
    IF n > Len(rs) THEN <<i>>
    ELSE IF n = Len(rs) THEN Ends(rs[n], ic, t, i)
    ELSE LET es == Ends(rs[n], ic, t, i)
         IN  CatOver(es, 1, Len(es), rs, n + 1, ic, t)

\* the rest of the row from each of es[lo..hi], in that order
CatOver(es, lo, hi, rs, n, ic, t) ==
    IF lo > hi THEN <<>>
    ELSE IF lo = hi THEN CatEnds(rs, n, ic, t, es[lo])
    ELSE LET mid == (lo + hi) \div 2
         IN  CatOver(es, lo, mid, rs, n, ic, t) \o CatOver(es, mid + 1, hi, rs, n, ic, t)

\* rs[n] | rs[n+1] | ..., the leftmost alternative first
AltEnds(rs, n, ic, t, i) ==
    IF n > Len(rs) THEN <<>>
    ELSE Ends(rs[n], ic, t, i) \o AltEnds(rs, n + 1, ic, t, i)

\* r.r{lo,hi} after c repetitions: a greedy repeat tries one more repetition
\* first, a lazy one tries to stop first
RepEnds(r, c, ic, t, i) ==
    LET stop == IF c >= r.lo THEN <<i>> ELSE <<>>
        es == Ends(r.r, ic, t, i)
        more == IF r.hi = Inf \/ c < r.hi
                THEN RepOver(es, 1, Len(es), r, c + 1, ic, t)
                ELSE <<>>
    IN  IF r.lazy THEN stop \o more ELSE more \o stop

RepOver(es, lo, hi, r, c, ic, t) ==
    IF lo > hi THEN <<>>
    ELSE IF lo = hi THEN RepEnds(r, c, ic, t, es[lo])
    ELSE LET mid == (lo + hi) \div 2
         IN  RepOver(es, lo, mid, r, c, ic, t) \o RepOver(es, mid + 1, hi, r, c, ic, t)

\* the end of the match of r at position i of t, 0 when there is none
MatchEnd(r, ic, t, i) ==
    LET es == Ends(r, ic, t, i) IN IF es = <<>> THEN 0 ELSE es[1]

\* the text from position i on, with the matches that start at the positions in
\* starts replaced, leftmost first and never overlapping
RECURSIVE SubFrom(_, _, _, _, _, _)
SubFrom(r, repl, ic, t, starts, i) ==
    LET cand == {j \in starts : j >= i}
    IN  IF cand = {} THEN SubSeq(t, i, Len(t))
        ELSE LET j == Min(cand)
             IN  SubSeq(t, i, j - 1) \o repl
                   \o SubFrom(r, repl, ic, t, starts, MatchEnd(r, ic, t, j))

\* whether r matches the empty string
RECURSIVE Nullable(_)
RECURSIVE NullableUpTo(_, _)
Nullable(r) ==
    CASE r.k = "lit" -> r.s = <<>>
      [] r.k \in {"any", "cls"} -> FALSE
      [] r.k = "cat" -> NullableUpTo(r.rs, Len(r.rs))
      [] r.k = "alt" -> \E n \in DOMAIN r.rs : Nullable(r.rs[n])
      [] r.k = "rep" -> r.lo = 0 \/ Nullable(r.r)
NullableUpTo(rs, n) == n = 0 \/ (Nullable(rs[n]) /\ NullableUpTo(rs, n - 1))

\* the characters a match of r can begin with: all of them, or those of a set
AnyFirst == [all |-> TRUE, cs |-> {}]
FirstIn(cs) == [all |-> FALSE, cs |-> cs]
Both(ic, c) == IF ic THEN {c, ToLower(c), ToUpper(c)} ELSE {c}
Join(a, b) == [all |-> a.all \/ b.all, cs |-> a.cs \cup b.cs]
RECURSIVE First(_, _)
RECURSIVE FirstOfCat(_, _, _)
RECURSIVE FirstOfAlt(_, _, _)
First(r, ic) ==
    CASE r.k = "lit" -> IF r.s = <<>> THEN FirstIn({}) ELSE FirstIn(Both(ic, r.s[1]))
      [] r.k = "any" -> AnyFirst
      [] r.k = "cls" -> IF r.neg THEN AnyFirst
                        ELSE FirstIn(UNION {Both(ic, c) : c \in r.cs})
      [] r.k = "cat" -> FirstOfCat(r.rs, 1, ic)
      [] r.k = "alt" -> FirstOfAlt(r.rs, 1, ic)
      [] r.k = "rep" -> First(r.r, ic)
FirstOfCat(rs, n, ic) ==
    IF n > Len(rs) THEN FirstIn({})
    ELSE IF Nullable(rs[n]) THEN Join(First(rs[n], ic), FirstOfCat(rs, n + 1, ic))
    ELSE First(rs[n], ic)
FirstOfAlt(rs, n, ic) ==
    IF n > Len(rs) THEN FirstIn({})
    ELSE Join(First(rs[n], ic), FirstOfAlt(rs, n + 1, ic))

\* the positions of t at which a match of r starts (a match begins with a
\* character of first, which is First(r, ic))
MatchStarts(r, first, ic, t) ==
    {j \in 1..Len(t) : (first.all \/ t[j] \in first.cs) /\ MatchEnd(r, ic, t, j) > j}

\* re.sub(pattern, repl, text, flags): every match, leftmost first, replaced
\* (no pattern of this program matches the empty string)
re_sub(r, repl, ic, t) ==
    SubFrom(r, repl, ic, t, MatchStarts(r, First(r, ic), ic, t), 1)

\* re.search(pattern, text) is not None
re_search(r, ic, t) == \E i \in 1..Len(t) : MatchEnd(r, ic, t, i) > 0

RECURSIVE lstrip(_)
lstrip(t) == IF t # <<>> /\ Head(t) \in Space THEN lstrip(Tail(t)) ELSE t
RECURSIVE rstrip(_)
rstrip(t) ==
    IF t # <<>> /\ t[Len(t)] \in Space THEN rstrip(SubSeq(t, 1, Len(t) - 1)) ELSE t
\* str.strip()
strip(t) == rstrip(lstrip(t))

\* "sep".join(ts)
RECURSIVE join(_, _)
join(sep, ts) ==
    IF ts = <<>> THEN <<>>
    ELSE IF Len(ts) = 1 THEN ts[1]
    ELSE ts[1] \o sep \o join(sep, Tail(ts))

\* needle in haystack
Contains(needle, t) == \E i \in 1..(Len(t) + 1) : LitAt(needle, FALSE, t, i)

(***************************************************************************)
(* clean_text: the patterns of its re.sub calls, in the order of the code. *)
(***************************************************************************)
Sp == Cls(Space)
D == Cls(Digit)
\* .*?
LazyAny == LazyRep(AnyChar, 0, Inf)
\* \d{4}/\d{4}
Ref44 == Cat(<<Rep(D, 4, 4), Lit(<<"/">>), Rep(D, 4, 4)>>)
\* \[\s*\d{4}/\d{4}\(XXX\)\]
ProcRef(code) == Cat(<<Lit(<<"[">>), Star(Sp), Ref44, Lit(code)>>)

\* <[^>]+>
TagPattern == Cat(<<Lit(<<"<">>), Plus(NotCls({">"})), Lit(<<">">>)>>)
\* \s+
WhitespacePattern == Plus(Sp)
\* \s{2,}
MultiSpacePattern == Rep(Sp, 2, Inf)

\* \(The sitting (?:was suspended|opened|closed|ended) at.*?\)
SittingPattern ==
    Cat(<<Lit(<<"(","T","h","e"," ","s","i","t","t","i","n","g"," ">>),
          Alt(<<Lit(<<"w","a","s"," ","s","u","s","p","e","n","d","e","d">>), Lit(<<"o","p","e","n","e","d">>), Lit(<<"c","l","o","s","e","d">>), Lit(<<"e","n","d","e","d">>)>>),
          Lit(<<" ","a","t">>), LazyAny, Lit(<<")">>)>>)
\* \(Voting time ended at.*?\)
VotingTimePattern == Cat(<<Lit(<<"(","V","o","t","i","n","g"," ","t","i","m","e"," ","e","n","d","e","d"," ","a","t">>), LazyAny, Lit(<<")">>)>>)
\* \((?:debat|stemming|vraag|interventie)\)
LabelPattern ==
    Cat(<<Lit(<<"(">>),
          Alt(<<Lit(<<"d","e","b","a","t">>), Lit(<<"s","t","e","m","m","i","n","g">>), Lit(<<"v","r","a","a","g">>), Lit(<<"i","n","t","e","r","v","e","n","t","i","e">>)>>),
          Lit(<<")">>)>>)
\* \(Het woord wordt gevoerd door:.*?\)
FloorParenPattern == Cat(<<Lit(<<"(","H","e","t"," ","w","o","o","r","d"," ","w","o","r","d","t"," ","g","e","v","o","e","r","d"," ","d","o","o","r",":">>), LazyAny, Lit(<<")">>)>>)
\* (\(|\[)\s*(?:(?:[a-zA-Z]{2,3})\s*(?:|\s|))?\s*(?:artikel|rule|punt|item)\s*\d+
\*   (?:,\s*lid\s*\d+)?\s*(?:\s+\w+)?\s*(\)|\])
ArticlePattern ==
    Cat(<<Alt(<<Lit(<<"(">>), Lit(<<"[">>)>>), Star(Sp),
          Opt(Cat(<<Rep(Cls(Letter), 2, 3), Star(Sp), Alt(<<Empty, Sp, Empty>>)>>)),
          Star(Sp),
          Alt(<<Lit(<<"a","r","t","i","k","e","l">>), Lit(<<"r","u","l","e">>), Lit(<<"p","u","n","t">>), Lit(<<"i","t","e","m">>)>>),
          Star(Sp), Plus(D),
          Opt(Cat(<<Lit(<<",">>), Star(Sp), Lit(<<"l","i","d">>), Star(Sp), Plus(D)>>)),
          Star(Sp),
          Opt(Cat(<<Plus(Sp), Plus(Cls(Word))>>)),
          Star(Sp),
          Alt(<<Lit(<<")">>), Lit(<<"]">>)>>)>>)
\* \[(COM|A)\d+-\d+(/\d+)?\]
DocRefPattern ==
    Cat(<<Lit(<<"[">>), Alt(<<Lit(<<"C","O","M">>), Lit(<<"A">>)>>), Plus(D), Lit(<<"-">>), Plus(D),
          Opt(Cat(<<Lit(<<"/">>), Plus(D)>>)), Lit(<<"]">>)>>)
\* \(?(?:http|https):\/\/[^\s]+?\)
UrlPattern ==
    Cat(<<Opt(Lit(<<"(">>)), Alt(<<Lit(<<"h","t","t","p">>), Lit(<<"h","t","t","p","s">>)>>), Lit(<<":","/","/">>),
          LazyRep(NotCls(Space), 1, Inf), Lit(<<")">>)>>)
\* \[\s*\d{5}/\d{4}\s*-\s*C\d+-\d+/\d+\s*-\s*\d{4}/\d{4}\(NLE\)\]
CouncilRefPattern ==
    Cat(<<Lit(<<"[">>), Star(Sp), Rep(D, 5, 5), Lit(<<"/">>), Rep(D, 4, 4), Star(Sp),
          Lit(<<"-">>), Star(Sp), Lit(<<"C">>), Plus(D), Lit(<<"-">>), Plus(D),
          Lit(<<"/">>), Plus(D), Star(Sp), Lit(<<"-">>), Star(Sp), Ref44,
          Lit(<<"(","N","L","E",")","]">>)>>)
\* \(“Stemmingsuitslagen”, punt \d+\)
VoteResultPattern == Cat(<<Lit(<<"(","ldq","S","t","e","m","m","i","n","g","s","u","i","t","s","l","a","g","e","n","rdq",","," ","p","u","n","t"," ">>), Plus(D), Lit(<<")">>)>>)
\* \(de Voorzitter(?: maakt na de toespraak van.*?| weigert in te gaan op.*?| stemt toe
\*   | herinnert eraan dat de gedragsregels moeten worden nageleefd| neemt er akte van|)\)
PresidentPattern ==
    Cat(<<Lit(<<"(","d","e"," ","V","o","o","r","z","i","t","t","e","r">>),
          Alt(<<Cat(<<Lit(<<" ","m","a","a","k","t"," ","n","a"," ","d","e"," ","t","o","e","s","p","r","a","a","k"," ","v","a","n">>), LazyAny>>),
                Cat(<<Lit(<<" ","w","e","i","g","e","r","t"," ","i","n"," ","t","e"," ","g","a","a","n"," ","o","p">>), LazyAny>>),
                Lit(<<" ","s","t","e","m","t"," ","t","o","e">>),
                Lit(<<" ","h","e","r","i","n","n","e","r","t"," ","e","r","a","a","n"," ","d","a","t"," ","d","e"," ","g","e","d","r","a","g","s","r","e","g","e","l","s"," ","m","o","e","t","e","n"," ","w","o","r","d","e","n"," ","n","a","g","e","l","e","e","f","d">>),
                Lit(<<" ","n","e","e","m","t"," ","e","r"," ","a","k","t","e"," ","v","a","n">>),
                Empty>>),
          Lit(<<")">>)>>)
\* \(zie bijlage.*?\)
AnnexPattern == Cat(<<Lit(<<"(","z","i","e"," ","b","i","j","l","a","g","e">>), LazyAny, Lit(<<")">>)>>)
\* \(\s*De vergadering wordt om.*?geschorst\.\)
SuspendedPattern ==
    Cat(<<Lit(<<"(">>), Star(Sp), Lit(<<"D","e"," ","v","e","r","g","a","d","e","r","i","n","g"," ","w","o","r","d","t"," ","o","m">>), LazyAny,
          Lit(<<"g","e","s","c","h","o","r","s","t",".",")">>)>>)
\* \(\s*De vergadering wordt om.*?hervat\.\)
ResumedPattern ==
    Cat(<<Lit(<<"(">>), Star(Sp), Lit(<<"D","e"," ","v","e","r","g","a","d","e","r","i","n","g"," ","w","o","r","d","t"," ","o","m">>), LazyAny,
          Lit(<<"h","e","r","v","a","t",".",")">>)>>)
\* Volgens de “catch the eye”-procedure wordt het woord gevoerd door.*?\.
CatchTheEyePattern ==
    Cat(<<Lit(<<"V","o","l","g","e","n","s"," ","d","e"," ","ldq","c","a","t","c","h"," ","t","h","e"," ","e","y","e","rdq","-","p","r","o","c","e","d","u","r","e"," ","w","o","r","d","t"," ","h","e","t"," ","w","o","o","r","d"," ","g","e","v","o","e","r","d"," ","d","o","o","r">>),
          LazyAny, Lit(<<".">>)>>)
\* Het woord wordt gevoerd door .*?\.
FloorPattern == Cat(<<Lit(<<"H","e","t"," ","w","o","o","r","d"," ","w","o","r","d","t"," ","g","e","v","o","e","r","d"," ","d","o","o","r"," ">>), LazyAny, Lit(<<".">>)>>)
\* De vergadering wordt om \d{1,2}\.\d{2} uur gesloten.   (the last . is unescaped)
ClosedAtPattern ==
    Cat(<<Lit(<<"D","e"," ","v","e","r","g","a","d","e","r","i","n","g"," ","w","o","r","d","t"," ","o","m"," ">>), Rep(D, 1, 2), Lit(<<".">>), Rep(D, 2, 2),
          Lit(<<" ","u","u","r"," ","g","e","s","l","o","t","e","n">>), AnyChar>>)
\* De vergadering wordt om \d{1,2}\.\d{2} uur geopend.
OpenedAtPattern ==
    Cat(<<Lit(<<"D","e"," ","v","e","r","g","a","d","e","r","i","n","g"," ","w","o","r","d","t"," ","o","m"," ">>), Rep(D, 1, 2), Lit(<<".">>), Rep(D, 2, 2),
          Lit(<<" ","u","u","r"," ","g","e","o","p","e","n","d">>), AnyChar>>)
\* Het debat wordt gesloten.
DebateClosedPattern == Cat(<<Lit(<<"H","e","t"," ","d","e","b","a","t"," ","w","o","r","d","t"," ","g","e","s","l","o","t","e","n">>), AnyChar>>)
\* Stemming:.*?\.
VotePattern == Cat(<<Lit(<<"S","t","e","m","m","i","n","g",":">>), LazyAny, Lit(<<".">>)>>)

\* the patterns of lines 124-150, in the order of the calls
Patterns ==
    << SittingPattern, VotingTimePattern, LabelPattern, FloorParenPattern,
       ArticlePattern, DocRefPattern, UrlPattern,
       ProcRef(<<"(","C","O","D",")","]">>), ProcRef(<<"(","I","N","I",")","]">>), ProcRef(<<"(","R","S","P",")","]">>),
       ProcRef(<<"(","I","M","M",")","]">>), ProcRef(<<"(","N","L","E",")","]">>),
       CouncilRefPattern, VoteResultPattern, PresidentPattern, AnnexPattern,
       SuspendedPattern, ResumedPattern, CatchTheEyePattern, FloorPattern,
       ClosedAtPattern, OpenedAtPattern, DebateClosedPattern, VotePattern >>

\* the calls that pass flags=re.IGNORECASE: lines 124-128 and 142
IgnoreCaseForgotten == {1, 2, 4, 5, 16}
IgnoreCase == {1, 2, 3, 4, 5, 16}

Rules == [k \in DOMAIN Patterns |-> [re |-> Patterns[k], ic |-> k \in IgnoreCase]]

\* one rule applied: re.sub(pattern, '', text, flags)
ApplyRule(k, t) == re_sub(Rules[k].re, <<>>, Rules[k].ic, t)

RECURSIVE ApplyRules(_, _)
ApplyRules(k, t) ==
    IF k > Len(Rules) THEN t
    ELSE LET u == ApplyRule(k, t) IN IF Len(u) >= 0 THEN ApplyRules(k + 1, u) ELSE u

\* lines 118-121: the tags go, whitespace runs become one space, the ends are trimmed
normalise(t) == strip(re_sub(WhitespacePattern, <<" ">>, FALSE, re_sub(TagPattern, <<>>, FALSE, t)))

\* the last pass left out
collapse_missing(t) == t

\* line 153
collapse(t) == strip(re_sub(MultiSpacePattern, <<" ">>, FALSE, t))

clean_text(t) == collapse(ApplyRules(1, normalise(t)))

(***************************************************************************)
(* extract_dutch_text_from_xml.  A parsed document is the sequence of its  *)
(* elements in document order; an element has a tag, the index of its      *)
(* parent (0 for the root element) and the text that stands before its     *)
(* first child.                                                            *)
(***************************************************************************)
\* Python's None
None == "None"

P == "text:p"
Table == "table:table"
OratorList == "Orator.List.Text"
AttendanceName == "Attendance.Participant.Name"

\* the list with its first two names in the other order
relevant_sections_debate_first ==
    << "PV.Debate.Text", "PV.Other.Text", "PV.Vote.Text", "PV.Sitting.Resumption.Text",
       "PV.Approval.Text", "PV.Agenda.Text", "PV.Sitting.Closure.Text" >>

relevant_sections ==
    << "PV.Other.Text", "PV.Debate.Text", "PV.Vote.Text", "PV.Sitting.Resumption.Text",
       "PV.Approval.Text", "PV.Agenda.Text", "PV.Sitting.Closure.Text" >>

RECURSIVE AncestorsOf(_, _)
AncestorsOf(d, n) ==
    IF d[n].parent = 0 THEN {} ELSE {d[n].parent} \cup AncestorsOf(d, d[n].parent)

\* the indices in S, ascending
RECURSIVE Ascending(_)
Ascending(S) == IF S = {} THEN <<>> ELSE LET m == Min(S) IN <<m>> \o Ascending(S \ {m})

RECURSIVE TextOfAll(_, _, _)
TextOfAll(d, ns, i) ==
    IF i > Len(ns) THEN <<>> ELSE d[ns[i]].text \o TextOfAll(d, ns, i + 1)

\* XPath string(): the text of the element and of its descendants, in document order
string(d, n) ==
    TextOfAll(d, Ascending({m \in n..Len(d) : m = n \/ n \in AncestorsOf(d, m)}), 1)

\* //section_name//text:p : a node set, in document order
SectionParagraphs(d, section_name) ==
    Ascending({m \in DOMAIN d :
                  /\ d[m].tag = P
                  /\ \E a \in AncestorsOf(d, m) : d[a].tag = section_name})

\* ancestor::table:table
TableAncestors(d, n) == {a \in AncestorsOf(d, n) : d[a].tag = Table}

\* ./tag
ChildrenTagged(d, n, tag) == {m \in DOMAIN d : d[m].parent = n /\ d[m].tag = tag}

\* string(./tag): the string value of the first node of the node set, "" for none
StringOfFirst(d, n, tag) ==
    LET cs == ChildrenTagged(d, n, tag)
    IN  IF cs = {} THEN <<>> ELSE string(d, Min(cs))

\* [a-zA-Z]{5,}
AlphaRunPattern == Rep(Cls(Letter), 5, Inf)

NameListLimit == 100
ShortLimit == 20
MinFinalLength == 50

\* lines 196-201: the paragraph is a bare list of names
IsNameList(d, n, text_content) ==
    /\ ChildrenTagged(d, n, OratorList) # {} \/ ChildrenTagged(d, n, AttendanceName) # {}
    /\ LET name_list_text == strip(StringOfFirst(d, n, OratorList))
       IN  /\ Len(text_content) < NameListLimit
           /\ name_list_text # <<>>
           /\ name_list_text = text_content

\* lines 193-194
InTable(d, n) == TableAncestors(d, n) # {}

\* lines 189-207: the paragraph's text is appended to dutch_texts
Appended(d, n) ==
    LET text_content == strip(string(d, n))
    IN  /\ text_content # <<>>
        /\ ~InTable(d, n)
        /\ ~IsNameList(d, n, text_content)
        /\ ~(Len(text_content) < ShortLimit /\ ~re_search(AlphaRunPattern, FALSE, text_content))

RECURSIVE AppendedOf(_, _, _, _)
AppendedOf(d, k, ps, i) ==
    IF i > Len(ps) THEN <<>>
    ELSE (IF Appended(d, ps[i]) THEN <<[section |-> k, node |-> ps[i]]>> ELSE <<>>)
            \o AppendedOf(d, k, ps, i + 1)

\* lines 185-207: the loops; each entry is a paragraph whose text is appended,
\* with the index of the section name whose query found it
RECURSIVE Entries(_, _)
Entries(d, k) ==
    IF k > Len(relevant_sections) THEN <<>>
    ELSE AppendedOf(d, k, SectionParagraphs(d, relevant_sections[k]), 1) \o Entries(d, k + 1)

\* line 207: the list dutch_texts, given the paragraphs appended
texts_of(d, es) == [i \in DOMAIN es |-> strip(string(d, es[i].node))]

\* the gate with the comparison off by one
gate_off_by_one(final) ==
    IF final # <<>> /\ Len(final) >= MinFinalLength THEN final ELSE None

\* line 211
gate(final) ==
    IF final # <<>> /\ Len(final) > MinFinalLength THEN final ELSE None

\* What the lenient parser does with a content (lines 163-164): it raises
\* XMLSyntaxError, raises another exception, returns no root element, or
\* returns the root of a tree.
ParseOutcomes == {"XMLSyntaxError", "Exception", "NoRoot", "Tree"}

\* extract_dutch_text_from_xml, with its local variables: what the call raises
\* ("" when it returns), what it returns, and dutch_texts and final_text at the
\* end (entries: the paragraphs whose texts are in dutch_texts)
AttributeError == "AttributeError"
Returned(value, es, ts, final) ==
    [raises |-> "", value |-> value, entries |-> es, dutch_texts |-> ts, final_text |-> final]
Raised(error) ==
    [raises |-> error, value |-> None, entries |-> <<>>, dutch_texts |-> <<>>, final_text |-> None]

extract_dutch_text_from_xml(o, d) ==
    CASE o \in {"XMLSyntaxError", "Exception"} -> Returned(None, <<>>, <<>>, None)
      [] o = "NoRoot" -> Raised(AttributeError)
      [] o = "Tree" ->
            LET es == Entries(d, 1)
                ts == texts_of(d, es)
                final == clean_text(join(<<"\n">>, ts))
            IN  Returned(gate(final), es, ts, final)

(***************************************************************************)
(* The state.  pc is the position of the run that a specification follows; *)
(* the other variables are the values that run has computed so far.        *)
(***************************************************************************)
VARIABLES
    pc,
    \* clean_text: its argument, its result, and the result cleaned once more
    text, cleaned, recleaned,
    \* one rule of clean_text: the rule, the text in another case, and what
    \* the rule leaves of the text and of the text in the other case
    rule, cased, out, out_cased,
    \* extract_dutch_text_from_xml: the document, what the parser does with it,
    \* and the call: what it raises or returns, and its local variables
    doc, outcome, call,
    \* main: the train split published on the hub (None: no repository), the
    \* number of runs started, and the run's local variables
    hub, runs, all_xml_urls, todo, processed_data, existing_dataset, combined

cleanVars == <<text, cleaned, recleaned>>
caseVars == <<rule, cased, out, out_cased>>
extractVars == <<doc, outcome, call>>
mainVars == <<hub, runs, all_xml_urls, todo, processed_data, existing_dataset, combined>>
vars == <<pc, cleanVars, caseVars, extractVars, mainVars>>

IdleClean == text = <<>> /\ cleaned = None /\ recleaned = None
IdleCase == rule = 0 /\ cased = None /\ out = None /\ out_cased = None
IdleExtract == doc = <<>> /\ outcome = None /\ call = None
IdleMain ==
    /\ hub = None /\ runs = 0 /\ all_xml_urls = <<>> /\ todo = <<>>
    /\ processed_data = <<>> /\ existing_dataset = None /\ combined = None

(***************************************************************************)
(* SpecClean: clean_text applied to a text, and again to its own result.   *)
(* The texts are the concatenations of at most MaxFrags of Fragments.      *)
(***************************************************************************)
MaxFrags == 3
Fragments ==
    { <<"(","d","e","b","a","t",")">>, <<"(","d","e">>, <<"b","a","t",")">>, <<"j","a"," ">>, <<" ","j","a">>, <<" ">>, <<"\n", "\t">>, <<"<","b",">">> }

RECURSIVE Concats(_)
Concats(n) ==
    IF n = 0 THEN {<<>>}
    ELSE LET shorter == Concats(n - 1)
         IN  shorter \cup {s \o f : s \in shorter, f \in Fragments}

InitClean ==
    /\ pc = "input"
    /\ text \in Concats(MaxFrags)
    /\ cleaned = None /\ recleaned = None
    /\ IdleCase /\ IdleExtract /\ IdleMain

Clean ==
    /\ pc = "input"
    /\ cleaned' = clean_text(text)
    /\ pc' = "cleaned"
    /\ UNCHANGED <<text, recleaned, caseVars, extractVars, mainVars>>

Reclean ==
    /\ pc = "cleaned"
    /\ recleaned' = clean_text(cleaned)
    /\ pc' = "recleaned"
    /\ UNCHANGED <<text, cleaned, caseVars, extractVars, mainVars>>

NextClean == Clean \/ Reclean
SpecClean == InitClean /\ [][NextClean]_vars

(***************************************************************************)
(* SpecCase: one rule of clean_text applied to a text and to the same text *)
(* in upper or in lower case, and clean_text applied to both.  The texts   *)
(* are one sample per rule, which that rule matches, after at most MaxPad  *)
(* words of padding.                                                       *)
(***************************************************************************)
MaxPad == 1
Samples ==
    << <<"(","T","h","e"," ","s","i","t","t","i","n","g"," ","w","a","s"," ","s","u","s","p","e","n","d","e","d"," ","a","t"," ","1","2",".","0","0",")">>,
       <<"(","V","o","t","i","n","g"," ","t","i","m","e"," ","e","n","d","e","d"," ","a","t"," ","1","3",".","0","5",")">>,
       <<"(","d","e","b","a","t",")">>,
       <<"(","H","e","t"," ","w","o","o","r","d"," ","w","o","r","d","t"," ","g","e","v","o","e","r","d"," ","d","o","o","r",":"," ","J","a","n",")">>,
       <<"(","a","r","t","i","k","e","l"," ","1","2",","," ","l","i","d"," ","3",")">>,
       <<"[","C","O","M","2","0","2","0","-","1","2","3","]">>,
       <<"(","h","t","t","p",":","/","/","x",".","e","u","/","a",")">>,
       <<"[","2","0","2","0","/","1","2","3","4","(","C","O","D",")","]">>,
       <<"[","2","0","2","0","/","1","2","3","4","(","I","N","I",")","]">>,
       <<"[","2","0","2","0","/","1","2","3","4","(","R","S","P",")","]">>,
       <<"[","2","0","2","0","/","1","2","3","4","(","I","M","M",")","]">>,
       <<"[","2","0","2","0","/","1","2","3","4","(","N","L","E",")","]">>,
       <<"[","1","2","3","4","5","/","2","0","2","0"," ","-"," ","C","9","-","0","0","0","1","/","2","0","2","0"," ","-"," ","2","0","2","0","/","1","2","3","4","(","N","L","E",")","]">>,
       <<"(","ldq","S","t","e","m","m","i","n","g","s","u","i","t","s","l","a","g","e","n","rdq",","," ","p","u","n","t"," ","1","2",")">>,
       <<"(","d","e"," ","V","o","o","r","z","i","t","t","e","r"," ","s","t","e","m","t"," ","t","o","e",")">>,
       <<"(","z","i","e"," ","b","i","j","l","a","g","e"," ","1",")">>,
       <<"(","D","e"," ","v","e","r","g","a","d","e","r","i","n","g"," ","w","o","r","d","t"," ","o","m"," ","1","2",".","0","0"," ","u","u","r"," ","g","e","s","c","h","o","r","s","t",".",")">>,
       <<"(","D","e"," ","v","e","r","g","a","d","e","r","i","n","g"," ","w","o","r","d","t"," ","o","m"," ","1","5",".","0","0"," ","u","u","r"," ","h","e","r","v","a","t",".",")">>,
       <<"V","o","l","g","e","n","s"," ","d","e"," ","ldq","c","a","t","c","h"," ","t","h","e"," ","e","y","e","rdq","-","p","r","o","c","e","d","u","r","e"," ","w","o","r","d","t"," ","h","e","t"," ","w","o","o","r","d"," ","g","e","v","o","e","r","d"," ","d","o","o","r"," ","J","a","n",".">>,
       <<"H","e","t"," ","w","o","o","r","d"," ","w","o","r","d","t"," ","g","e","v","o","e","r","d"," ","d","o","o","r"," ","J","a","n",".">>,
       <<"D","e"," ","v","e","r","g","a","d","e","r","i","n","g"," ","w","o","r","d","t"," ","o","m"," ","9",".","0","0"," ","u","u","r"," ","g","e","s","l","o","t","e","n",".">>,
       <<"D","e"," ","v","e","r","g","a","d","e","r","i","n","g"," ","w","o","r","d","t"," ","o","m"," ","9",".","0","0"," ","u","u","r"," ","g","e","o","p","e","n","d",".">>,
       <<"H","e","t"," ","d","e","b","a","t"," ","w","o","r","d","t"," ","g","e","s","l","o","t","e","n",".">>,
       <<"S","t","e","m","m","i","n","g",":"," ","m","o","r","g","e","n",".">> >>

RECURSIVE Padding(_)
Padding(n) == IF n = 0 THEN <<>> ELSE <<"J","a"," ">> \o Padding(n - 1)

Recased(t) == {upper(t), lower(t)}

InitCase ==
    /\ pc = "input"
    /\ \E k \in DOMAIN Samples, n \in 0..MaxPad : text = Padding(n) \o Samples[k]
    /\ cleaned = None /\ recleaned = None
    /\ IdleCase /\ IdleExtract /\ IdleMain

ApplyOneRule ==
    /\ pc = "input"
    /\ \E k \in DOMAIN Rules, c \in Recased(text) :
          /\ rule' = k
          /\ cased' = c
          /\ out' = ApplyRule(k, text)
          /\ out_cased' = ApplyRule(k, c)
    /\ pc' = "applied"
    /\ UNCHANGED <<cleanVars, extractVars, mainVars>>

CleanCased ==
    /\ pc = "input"
    /\ \E c \in Recased(text) :
          /\ cased' = c
          /\ cleaned' = clean_text(text)
          /\ recleaned' = clean_text(c)
    /\ pc' = "cleaned"
    /\ UNCHANGED <<text, rule, out, out_cased, extractVars, mainVars>>

NextCase == ApplyOneRule \/ CleanCased
SpecCase == InitCase /\ [][NextCase]_vars

(***************************************************************************)
(* SpecExtract: a document is built element by element, in document order, *)
(* up to MaxNodes elements below the root, and extract_dutch_text_from_xml *)
(* is applied to it.                                                       *)
(***************************************************************************)
MaxNodes == 4
Prose == <<"H","e","t"," ","v","o","o","r","s","t","e","l"," ","w","o","r","d","t"," ","a","a","n","g","e","n","o","m","e","n",".">>
Names == <<"J","a","n","s","e","n",","," ","d","e"," ","V","r","i","e","s">>
ShortText == <<"3",".","1",".">>
BuildSections == {"PV.Other.Text", "PV.Debate.Text"}

ChildTags(tag) ==
    CASE tag = "PV" -> BuildSections
      [] tag \in BuildSections -> BuildSections \cup {P, Table}
      [] tag = P -> {P, Table, OratorList, AttendanceName}
      [] tag = Table -> {P}
      [] OTHER -> {}

\* the texts a new element of this tag may start with
TextsFor(tag) ==
    CASE tag = P -> {<<>>, Prose, ShortText}
      [] tag \in {OratorList, AttendanceName} -> {Names}
      [] OTHER -> {<<>>}

\* the elements that are still open after the last one: it and its ancestors
OpenElements(d) == {Len(d)} \cup AncestorsOf(d, Len(d))

InitExtract ==
    /\ pc = "build"
    /\ doc = <<[tag |-> "PV", parent |-> 0, text |-> <<>>]>>
    /\ outcome = None /\ call = None
    /\ IdleClean /\ IdleCase /\ IdleMain

AddNode ==
    /\ pc = "build"
    /\ Len(doc) <= MaxNodes
    /\ \E parent \in OpenElements(doc) :
          \E tag \in ChildTags(doc[parent].tag) :
             \E txt \in TextsFor(tag) :
                doc' = Append(doc, [tag |-> tag, parent |-> parent, text |-> txt])
    /\ UNCHANGED <<pc, outcome, call, cleanVars, caseVars, mainVars>>

Extract ==
    /\ pc = "build"
    /\ \E o \in ParseOutcomes :
          /\ outcome' = o
          /\ call' = extract_dutch_text_from_xml(o, doc)
    /\ pc' = "extracted"
    /\ UNCHANGED <<doc, cleanVars, caseVars, mainVars>>

NextExtract == AddNode \/ Extract
SpecExtract == InitExtract /\ [][NextExtract]_vars

(***************************************************************************)
(* Spec: runs of main, one after the other, against the hub.  A run        *)
(* collects the URLs, downloads and extracts each document, loads the      *)
(* published dataset, merges and pushes.  What the archive, the downloads, *)
(* the parser and the hub answer is chosen freely.                         *)
(***************************************************************************)
MaxRuns == 2
SOURCE == <<"E","u","r","o","p","e","a","n"," ","P","a","r","l","i","a","m","e","n","t"," ","M","i","n","u","t","e","s">>
NL_XML == <<"_","N","L",".","x","m","l">>
UrlA == <<"a","_","N","L",".","x","m","l">>
UrlB == <<"b","_","N","L",".","x","m","l">>
UrlEN == <<"a","_","E","N",".","x","m","l">>
Urls == {UrlA, UrlB, UrlEN}

Para50 == <<"H","e","t"," ","P","a","r","l","e","m","e","n","t"," ","n","e","e","m","t"," ","h","e","t"," ","v","e","r","s","l","a","g"," ","o","v","e","r"," ","d","e"," ","b","e","g","r","o","t","i","n","g",".">>
Para51 == <<"H","e","t"," ","P","a","r","l","e","m","e","n","t"," ","n","e","e","m","t"," ","d","e"," ","v","e","r","s","l","a","g","e","n"," ","o","v","e","r"," ","d","e"," ","b","e","g","r","o","t","i","n","g",".">>

\* a document with one paragraph in one debate section
DocOf(t) ==
    << [tag |-> "PV", parent |-> 0, text |-> <<>>],
       [tag |-> "PV.Debate.Text", parent |-> 1, text |-> <<>>],
       [tag |-> P, parent |-> 2, text |-> t] >>

\* what a download can return besides None: an empty content, or a content
\* with what the parser does with it
Contents ==
    {[outcome |-> "Empty", tree |-> <<>>]}
      \cup {[outcome |-> o, tree |-> <<>>] : o \in ParseOutcomes \ {"Tree"}}
      \cup {[outcome |-> "Tree", tree |-> DocOf(t)] : t \in {Para50, Para51}}

\* the lists without repetition of elements of S
RECURSIVE ListsOf(_)
ListsOf(S) ==
    {<<>>} \cup UNION {{<<x>> \o l : l \in ListsOf(S \ {x})} : x \in S}

UrlsOf(dataset) == {dataset[i].URL : i \in DOMAIN dataset}

Init ==
    /\ pc = "idle"
    /\ hub = None /\ runs = 0 /\ all_xml_urls = <<>> /\ todo = <<>>
    /\ processed_data = <<>> /\ existing_dataset = None /\ combined = None
    /\ IdleClean /\ IdleCase /\ IdleExtract

\* main, lines 250-260: a run starts; without a token it ends at once
Start ==
    /\ pc \in {"idle", "done", "crashed"}
    /\ runs < MaxRuns
    /\ runs' = runs + 1
    /\ \E hf_token \in BOOLEAN : pc' = IF hf_token THEN "started" ELSE "done"
    /\ all_xml_urls' = <<>> /\ todo' = <<>> /\ processed_data' = <<>>
    /\ existing_dataset' = None /\ combined' = None
    /\ doc' = <<>> /\ outcome' = None /\ call' = None
    /\ UNCHANGED <<hub, cleanVars, caseVars>>

\* main, lines 264-268, with get_all_archive_xml_links: the list of a set of
\* URLs, in any order; the run ends when the list is empty
Collect ==
    /\ pc = "started"
    /\ \E links \in ListsOf(Urls) :
          /\ all_xml_urls' = links
          /\ todo' = links
          /\ pc' = IF links = <<>> THEN "done" ELSE "extracting"
    /\ UNCHANGED <<hub, runs, processed_data, existing_dataset, combined,
                   cleanVars, caseVars, extractVars>>

\* process_and_extract_data, lines 220-234: one turn of the loop
record(url, t) == [URL |-> url, text |-> t, source |-> SOURCE]

SkipUrl ==
    /\ pc = "extracting" /\ todo # <<>>
    /\ ~Contains(NL_XML, Head(todo))
    /\ todo' = Tail(todo)
    /\ UNCHANGED <<pc, hub, runs, all_xml_urls, processed_data, existing_dataset,
                   combined, cleanVars, caseVars, extractVars>>

\* download_content returns None (a request error) or an empty content
DownloadNothing ==
    /\ pc = "extracting" /\ todo # <<>>
    /\ Contains(NL_XML, Head(todo))
    /\ todo' = Tail(todo)
    /\ doc' = <<>> /\ outcome' = None /\ call' = None
    /\ UNCHANGED <<pc, hub, runs, all_xml_urls, processed_data, existing_dataset,
                   combined, cleanVars, caseVars>>

ProcessUrl ==
    /\ pc = "extracting" /\ todo # <<>>
    /\ Contains(NL_XML, Head(todo))
    /\ \E xml_content \in Contents :
          /\ xml_content.outcome # "Empty"
          /\ doc' = xml_content.tree
          /\ outcome' = xml_content.outcome
          /\ call' = extract_dutch_text_from_xml(xml_content.outcome, xml_content.tree)
    /\ IF call'.raises # ""
       THEN /\ pc' = "crashed"
            /\ UNCHANGED <<todo, processed_data>>
       ELSE /\ pc' = pc
            /\ todo' = Tail(todo)
            /\ processed_data' =
                  IF call'.value # None /\ call'.value # <<>>
                  THEN Append(processed_data, record(Head(todo), call'.value))
                  ELSE processed_data
    /\ UNCHANGED <<hub, runs, all_xml_urls, existing_dataset, combined, cleanVars, caseVars>>

\* load_existing_dataset, lines 237-247: the published train split, or None
\* when load_dataset raises (no repository, or any other failure)
load_existing_dataset(loaded) ==
    \/ loaded = hub
    \/ loaded = None

\* main, lines 278-292: the loop is over; without a record the run ends,
\* otherwise the published dataset is loaded
Load ==
    /\ pc = "extracting" /\ todo = <<>>
    /\ IF processed_data = <<>>
       THEN pc' = "done" /\ UNCHANGED existing_dataset
       ELSE pc' = "loaded" /\ load_existing_dataset(existing_dataset')
    /\ UNCHANGED <<hub, runs, all_xml_urls, todo, processed_data, combined,
                   cleanVars, caseVars, extractVars>>

\* the filter that lets every record through
is_new_record_unfiltered(r, existing_urls) == TRUE

\* lines 304-305
is_new_record(r, existing_urls) == r.URL \notin existing_urls

\* lines 301-307
filtered_new_data(existing, new_data) ==
    SelectSeq(new_data, LAMBDA r : is_new_record(r, UrlsOf(existing)))

\* main, lines 295-320: the dataset to push; the run ends when no record is
\* new.  What existing_dataset.concatenate does is the library's: it returns the
\* two datasets in a row, or raises.
Merge ==
    /\ pc = "loaded"
    /\ IF existing_dataset # None
       THEN LET filtered == filtered_new_data(existing_dataset, processed_data)
            IN  IF Len(filtered) > 0
                THEN \/ combined' = existing_dataset \o filtered /\ pc' = "merged"
                     \/ combined' = None /\ pc' = "crashed"
                ELSE combined' = None /\ pc' = "done"
       ELSE combined' = processed_data /\ pc' = "merged"
    /\ UNCHANGED <<hub, runs, all_xml_urls, todo, processed_data, existing_dataset,
                   cleanVars, caseVars, extractVars>>

\* main, lines 324-341: create_repo or push_to_hub fails and the hub stays as
\* it is, or the train split on the hub becomes the combined dataset
Push ==
    /\ pc = "merged"
    /\ \/ hub' = combined /\ pc' = "pushed"
       \/ hub' = hub /\ pc' = "done"
    /\ UNCHANGED <<runs, all_xml_urls, todo, processed_data, existing_dataset,
                   combined, cleanVars, caseVars, extractVars>>

\* line 343
Finish ==
    /\ pc = "pushed"
    /\ pc' = "done"
    /\ UNCHANGED <<hub, runs, all_xml_urls, todo, processed_data, existing_dataset,
                   combined, cleanVars, caseVars, extractVars>>

Next ==
    \/ Start \/ Collect \/ SkipUrl \/ DownloadNothing \/ ProcessUrl
    \/ Load \/ Merge \/ Push \/ Finish
Spec == Init /\ [][Next]_vars

(***************************************************************************)
(* The claims.                                                             *)
(***************************************************************************)

\* C1 (as claimed): clean_text is idempotent: cleaning the result of clean_text
\* once more gives the same text.
C1_Idempotent == pc = "recleaned" => recleaned = cleaned

\* two whitespace characters in a row
HasDoubleSpace(t) == \E i \in 1..(Len(t) - 1) : t[i] \in Space /\ t[i + 1] \in Space

\* C4: the result of clean_text holds no two consecutive spaces, no tab and no
\* newline (its only whitespace is the single space), and no whitespace at
\* either end.
C4_WhitespaceInvariant ==
    pc \in {"cleaned", "recleaned"} =>
        /\ \A i \in DOMAIN cleaned : cleaned[i] \in Space => cleaned[i] = " "
        /\ ~HasDoubleSpace(cleaned)
        /\ cleaned # <<>> => cleaned[1] \notin Space /\ cleaned[Len(cleaned)] \notin Space

\* a removal of boilerplate has joined the spaces on either side of the phrase
C4_Witness ==
    /\ pc = "cleaned"
    /\ HasDoubleSpace(ApplyRules(1, normalise(text)))
    /\ Len(cleaned) > 1

\* the rules that the code compiles with re.IGNORECASE
CaseBlindRules == {1, 2, 3, 4, 5, 16}

\* the text is the sample of rule k after some padding, and the other text is
\* that sample in another case than written, after the padding in some case
RecasedSample(k) ==
    \E n \in 0..Len(text) :
        /\ n + Len(Samples[k]) = Len(text)
        /\ SubSeq(text, n + 1, Len(text)) = Samples[k]
        /\ SubSeq(cased, n + 1, Len(cased)) # Samples[k]

\* C9 (as claimed): every rule matches without regard to case: what a rule
\* removes from a text it removes from the text in another case too, and the
\* upper-case spelling of "Het debat wordt gesloten." cleans to the empty string.
C9_EveryRuleCaseInsensitive ==
    /\ pc = "applied" => lower(out_cased) = lower(out)
    /\ pc = "cleaned" /\ text = Samples[23] => recleaned = <<>>

\* C9 (amended): the six rules compiled with re.IGNORECASE match without regard
\* to case; each of the other eighteen rules leaves its sample alone once the
\* sample is in another case than written, and the upper-case spelling of
\* "Het debat wordt gesloten." is returned by clean_text as it is.
C9_FlaggedRulesCaseInsensitive ==
    /\ pc = "applied" /\ rule \in CaseBlindRules => lower(out_cased) = lower(out)
    /\ pc = "applied" /\ rule \notin CaseBlindRules /\ RecasedSample(rule) =>
          /\ out_cased = cased
          /\ out # text
    /\ pc = "cleaned" /\ text = Samples[23] /\ cased = upper(text) =>
          /\ cleaned = <<>>
          /\ recleaned = cased

\* a rule with the flag has removed its sample written in another case
C9_Witness ==
    /\ pc = "applied"
    /\ rule \in CaseBlindRules
    /\ cased # text
    /\ out_cased # cased
    /\ out # text

\* C2 (as claimed): extract_dutch_text_from_xml never raises, whatever the
\* parser does with the content: each call returns, and the loop of
\* process_and_extract_data goes on.
C2_NeverRaises ==
    outcome # None => call.raises = ""

\* C3: for a parsed document the call returns None exactly when the cleaned
\* concatenation has at most 50 characters and returns it unchanged otherwise,
\* and every record of processed_data has a text of more than 50 characters, a
\* URL that contains "_NL.xml" and the source "European Parliament Minutes".
C3_MinimumLengthGate ==
    /\ outcome = "Tree" =>
          /\ call.raises = ""
          /\ Len(call.final_text) <= 50 => call.value = None
          /\ Len(call.final_text) > 50 => call.value = call.final_text
    /\ \A i \in DOMAIN processed_data :
          /\ Len(processed_data[i].text) > 50
          /\ Contains(NL_XML, processed_data[i].URL)
          /\ processed_data[i].source = SOURCE

\* after a record was appended, a document whose cleaned text has exactly 50
\* characters is turned down
C3_Witness ==
    /\ pc = "extracting"
    /\ outcome = "Tree"
    /\ Len(call.final_text) = 50
    /\ call.value = None
    /\ Len(processed_data) = 1
    /\ Len(processed_data[1].text) = 51

\* no two records of the dataset share a URL
UniqueUrls(dataset) ==
    \A i, j \in DOMAIN dataset : dataset[i].URL = dataset[j].URL => i = j

\* the newly extracted records whose URL equals no URL of the loaded dataset
UnseenRecords ==
    SelectSeq(processed_data,
              LAMBDA r : \A i \in DOMAIN existing_dataset : existing_dataset[i].URL # r.URL)

\* C7: in a run that has loaded an existing dataset, the dataset to push is the
\* existing records followed by exactly the new records whose URL equals no
\* existing URL, and there is such a record (a run without one pushes nothing);
\* the published dataset never holds two records with one URL.
C7_DeduplicatedByUrl ==
    /\ pc \in {"merged", "pushed"} /\ existing_dataset # None =>
          /\ combined = existing_dataset \o UnseenRecords
          /\ UnseenRecords # <<>>
    /\ pc = "pushed" => hub = combined
    /\ hub # None => UniqueUrls(hub)

\* a push of the loaded dataset with one new record, another one filtered out
C7_Witness ==
    /\ pc = "pushed"
    /\ existing_dataset # None
    /\ Len(processed_data) = 2
    /\ Len(hub) = Len(existing_dataset) + 1
    /\ hub[Len(hub)].URL \notin UrlsOf(existing_dataset)

\* C8 (as claimed): a push keeps every record that was published before it,
\* whatever load_existing_dataset has returned.
C8_IncrementalPublication ==
    [][pc' = "pushed" /\ hub # None =>
          \A i \in DOMAIN hub : \E j \in DOMAIN hub' : hub'[j] = hub[i]]_vars

\* a parsed document has been extracted
Extracted == pc = "extracted" /\ outcome = "Tree"

\* the paragraphs whose texts the call has joined
Retained == {call.entries[i].node : i \in DOMAIN call.entries}

\* element m is element n or stands inside it
Within(m, n) == m = n \/ n \in AncestorsOf(doc, m)

\* C5 (as claimed): the joined text holds no text of a paragraph that has a
\* table ancestor: no retained paragraph is or contains such a paragraph with
\* text.
C5_TableExclusion ==
    Extracted =>
        \A n \in Retained : \A m \in DOMAIN doc :
            Within(m, n) /\ doc[m].tag = P /\ (\E a \in AncestorsOf(doc, m) : doc[a].tag = Table)
                => string(doc, m) = <<>>

\* the paragraphs below a section of one of the seven kinds, outside any table
Candidates ==
    {n \in DOMAIN doc :
        /\ doc[n].tag = P
        /\ \E a \in AncestorsOf(doc, n) : \E k \in DOMAIN relevant_sections : doc[a].tag = relevant_sections[k]
        /\ \A a \in AncestorsOf(doc, n) : doc[a].tag # Table}

\* the orator-list and attendance-name nodes that paragraph n directly wraps
NameNodes(n) == {m \in DOMAIN doc : doc[m].parent = n /\ doc[m].tag \in {OratorList, AttendanceName}}

\* C6 (as claimed): a paragraph outside any table that directly wraps an
\* orator-list or attendance-name node is skipped when its trimmed text has
\* fewer than 100 characters and equals the trimmed text of that node; when its
\* text differs from the node's, this rule does not skip it.
C6_NameListExclusion ==
    Extracted =>
        \A n \in Candidates :
            NameNodes(n) # {} =>
                LET text_content == strip(string(doc, n))
                    name_list_text == strip(string(doc, Min(NameNodes(n))))
                IN  /\ Len(text_content) < 100 /\ name_list_text = text_content
                        => n \notin Retained
                    /\ name_list_text # text_content /\ Len(text_content) >= 20
                        => n \in Retained

\* C10 (as claimed): the retained paragraphs are joined in document order, each
\* once.
C10_DocumentOrder ==
    Extracted =>
        \A i, j \in DOMAIN call.entries :
            i < j => call.entries[i].node < call.entries[j].node

\* the seven kinds of section, in the order the code queries them
KindOrder ==
    << "PV.Other.Text", "PV.Debate.Text", "PV.Vote.Text", "PV.Sitting.Resumption.Text",
       "PV.Approval.Text", "PV.Agenda.Text", "PV.Sitting.Closure.Text" >>

\* paragraph n stands below a section of the k-th kind and passes the filters
Survives(k, n) ==
    /\ doc[n].tag = P
    /\ \E a \in AncestorsOf(doc, n) : doc[a].tag = KindOrder[k]
    /\ Appended(doc, n)

\* C10 (amended): the texts are joined kind by kind in the order Other, Debate,
\* Vote, Sitting.Resumption, Approval, Agenda, Sitting.Closure, and in document
\* order within one kind; a surviving paragraph gives its trimmed text once for
\* each kind of section it stands below.
C10_KindThenDocumentOrder ==
    Extracted =>
        /\ \A i, j \in DOMAIN call.entries :
              i < j => \/ call.entries[i].section < call.entries[j].section
                       \/ /\ call.entries[i].section = call.entries[j].section
                          /\ call.entries[i].node < call.entries[j].node
        /\ \A i \in DOMAIN call.entries : Survives(call.entries[i].section, call.entries[i].node)
        /\ \A k \in DOMAIN KindOrder : \A n \in DOMAIN doc :
              Survives(k, n) => \E i \in DOMAIN call.entries :
                                    call.entries[i] = [section |-> k, node |-> n]
        /\ DOMAIN call.dutch_texts = DOMAIN call.entries
        /\ \A i \in DOMAIN call.entries :
              call.dutch_texts[i] = strip(string(doc, call.entries[i].node))

\* a paragraph of a later Other section is joined before a paragraph of an
\* earlier Debate section, and a paragraph below both kinds is joined twice
C10_Witness ==
    /\ Extracted
    /\ \E i, j \in DOMAIN call.entries : i < j /\ call.entries[i].node > call.entries[j].node
    /\ \E i, j \in DOMAIN call.entries : i < j /\ call.entries[i].node = call.entries[j].node

====
